---- MODULE Spec2Model ----
(***************************************************************************)
(* HashSet<T, H> of libstd/collections/hash/set.rs: a set stored as the    *)
(* keys of a HashMap<T, (), H>, with its lazy set-algebra iterators.       *)
(*                                                                         *)
(* The model holds two sets, "a" and "b", and at most one live iterator    *)
(* object (Drain, Iter, Difference, Intersection, SymmetricDifference or   *)
(* Union).  The hash table is the sequence of its keys in bucket order     *)
(* together with its size counter; the bucket a new key lands in is an     *)
(* input of the insertion, since the order of a hash table is unspecified. *)
(*                                                                         *)
(* Spec drives the mutating calls and drain on the set "a", starting from  *)
(* HashSet::new().  SpecAlgebra draws both sets from the states a set can  *)
(* be in and drives the borrowing calls: the iterators and the predicates. *)
(***************************************************************************)
EXTENDS Integers, Sequences, FiniteSets, Bags, TLC

\* ---------------------------------------------------------------- bounds
\* Elements are the integers 0 .. NumValues-1.
NumValues == 3
\* Longest sequence handed to extend.
MaxXs == 2
\* Highest count kept of consecutive drain-then-extend rounds.
MaxCycles == 2

Values == 0 .. (NumValues - 1)
SetNames == {"a", "b"}
Slots == 1 .. NumValues
\* The first bucket and the last one.
EndSlots == {1, NumValues}

VARIABLES
    set,    \* set[s]: the HashSet named s, a record with its field map
    it,     \* the live iterator object, kind "none" when there is none
    out,    \* the elements the live iterator has yielded so far
    last    \* the most recent call: its arguments, result and pre-state

vars == <<set, it, out, last>>

\* ---------------------------------------------------------------- helpers
Some(x) == [some |-> TRUE, val |-> x]
None == [some |-> FALSE, val |-> 0]

Min(x, y) == IF x <= y THEN x ELSE y

\* The finite sequences over S of length at most n.
SeqsUpTo(S, n) == UNION {[1 .. k -> S] : k \in 0 .. n}

\* The elements of a sequence.
Range(q) == {q[i] : i \in 1 .. Len(q)}

\* The number of places of q that hold e.
Count(q, e) == Cardinality({i \in 1 .. Len(q) : q[i] = e})

\* The multiset of the elements of a sequence.
BagOf(q) == [e \in Range(q) |-> Count(q, e)]

NoDup(q) == \A i, j \in 1 .. Len(q) : q[i] = q[j] => i = j

\* ------------------------------------------------- the underlying HashMap
\* A HashMap<T, ()>: its keys in bucket order and its size counter.
HashMap_with_capacity == [keys |-> <<>>, size |-> 0]

map_len(m) == m.size

contains_key(m, k) == \E i \in 1 .. Len(m.keys) : m.keys[i] = k

\* insert(key, ()) -> the previous value, or None when the key was absent.
\* A new key lands in bucket p (clipped to the occupied range).
map_insert(m, k, p) ==
    IF contains_key(m, k)
    THEN [map |-> m, old |-> Some(0)]
    ELSE LET q == Min(p, Len(m.keys) + 1)
         IN  [map |-> [keys |-> SubSeq(m.keys, 1, q - 1) \o <<k>>
                                   \o SubSeq(m.keys, q, Len(m.keys)),
                       size |-> m.size + 1],
              old |-> None]

\* remove(key) -> the removed value, or None when the key was absent.
map_remove(m, k) ==
    IF contains_key(m, k)
    THEN [map |-> [keys |-> SelectSeq(m.keys, LAMBDA e : e # k),
                   size |-> m.size - 1],
          old |-> Some(0)]
    ELSE [map |-> m, old |-> None]

map_clear(m) == [keys |-> <<>>, size |-> 0]

\* keys(): a cursor over the keys in bucket order.
map_keys(m) == [rest |-> m.keys]

Keys_next(i) ==
    IF i.rest = <<>>
    THEN [ret |-> None, st |-> i]
    ELSE [ret |-> Some(Head(i.rest)), st |-> [rest |-> Tail(i.rest)]]

Keys_size_hint(i) == <<Len(i.rest), Some(Len(i.rest))>>

\* Drain::next of the map: takes the next entry out of the table.
map_drain_next(m) ==
    IF m.keys = <<>>
    THEN [ret |-> None, map |-> m]
    ELSE [ret |-> Some(Head(m.keys)),
          map |-> [keys |-> Tail(m.keys), size |-> m.size - 1]]

\* Drop of the map's Drain: pulls until the table yields nothing more.
RECURSIVE map_drain_drop(_)
map_drain_drop(m) ==
    LET r == map_drain_next(m)
    IN  IF r.ret.some THEN map_drain_drop(r.map) ELSE r.map

\* ------------------------------------------------------------ the HashSet
HashSet_new == [map |-> HashMap_with_capacity]

len(h) == map_len(h.map)

is_empty_nonzero(h) == map_len(h.map) # 0

is_empty(h) == map_len(h.map) = 0

clear(h) == [map |-> map_clear(h.map)]

contains(h, v) == contains_key(h.map, v)

iter(h) == [iter |-> map_keys(h.map)]

Iter_next_twice(i) ==
    LET r == Keys_next(Keys_next(i.iter).st)
    IN  [ret |-> r.ret, st |-> [iter |-> r.st]]

Iter_next(i) ==
    LET r == Keys_next(i.iter)
    IN  [ret |-> r.ret, st |-> [iter |-> r.st]]

Iter_size_hint(i) == Keys_size_hint(i.iter)

insert_is_some(h, v, p) ==
    LET r == map_insert(h.map, v, p)
    IN  [set |-> [map |-> r.map], ret |-> r.old.some]

insert(h, v, p) ==
    LET r == map_insert(h.map, v, p)
    IN  [set |-> [map |-> r.map], ret |-> ~r.old.some]

remove_is_none(h, v) ==
    LET r == map_remove(h.map, v)
    IN  [set |-> [map |-> r.map], ret |-> ~r.old.some]

remove(h, v) ==
    LET r == map_remove(h.map, v)
    IN  [set |-> [map |-> r.map], ret |-> r.old.some]

extend_first_only(h, xs, p) ==
    IF xs = <<>> THEN h ELSE insert(h, Head(xs), p).set

\* extend: insert each element of xs in turn; new keys land in bucket p.
RECURSIVE extend(_, _, _)
extend(h, xs, p) ==
    IF xs = <<>>
    THEN h
    ELSE extend(insert(h, Head(xs), p).set, Tail(xs), p)

\* from_iter: a new set (the capacity asked for holds no element) extended
\* with the sequence the iterator yields.
from_iter_no_extend(xs, p) == HashSet_new

from_iter(xs, p) == extend(HashSet_new, xs, p)

\* drain(): the Drain handed out borrows the set's map mutably, so its state
\* is that map; Drain::next pulls the next entry out of the map, and dropping
\* the Drain drops the map's Drain, which empties what is left.
drain(h) == [iter |-> "map.drain"]

Drain_next(h) ==
    LET r == map_drain_next(h.map)
    IN  [ret |-> r.ret, set |-> [map |-> r.map]]

Drain_drop_leak(h) == h

Drain_drop(h) == [map |-> map_drain_drop(h.map)]

\* ------------------------------------------------ set-algebra predicates
\* self.iter().all(f): the short-circuiting scan of an Iter.
RECURSIVE all_contained(_, _, _)
all_contained(i, other, want) ==
    LET r == Iter_next(i)
    IN  IF ~r.ret.some THEN TRUE
        ELSE IF contains(other, r.ret.val) # want THEN FALSE
        ELSE all_contained(r.st, other, want)

is_disjoint_no_not(h, other) == all_contained(iter(h), other, TRUE)

is_disjoint(h, other) == all_contained(iter(h), other, FALSE)

is_subset_swapped(h, other) == all_contained(iter(other), h, TRUE)

is_subset(h, other) == all_contained(iter(h), other, TRUE)

is_superset(h, other) == is_subset(other, h)

\* PartialEq::eq: the lengths first, then the scan of self against other.
eq_len_only(h, other) == len(h) = len(other)

eq_no_len(h, other) == all_contained(iter(h), other, TRUE)

eq(h, other) ==
    IF len(h) # len(other)
    THEN FALSE
    ELSE all_contained(iter(h), other, TRUE)

\* ------------------------------------------------ set-algebra iterators
difference(h, other) == [iter |-> iter(h), other |-> other]

intersection(h, other) == [iter |-> iter(h), other |-> other]

RECURSIVE Difference_next_no_not(_)
Difference_next_no_not(d) ==
    LET r == Iter_next(d.iter)
    IN  IF ~r.ret.some
        THEN [ret |-> None, st |-> [d EXCEPT !.iter = r.st]]
        ELSE IF contains(d.other, r.ret.val)
        THEN [ret |-> r.ret, st |-> [d EXCEPT !.iter = r.st]]
        ELSE Difference_next_no_not([d EXCEPT !.iter = r.st])

RECURSIVE Difference_next_no_advance(_)
Difference_next_no_advance(d) ==
    LET r == Iter_next(d.iter)
    IN  IF ~r.ret.some
        THEN [ret |-> None, st |-> [d EXCEPT !.iter = r.st]]
        ELSE IF ~contains(d.other, r.ret.val)
        THEN [ret |-> r.ret, st |-> d]
        ELSE Difference_next_no_advance([d EXCEPT !.iter = r.st])

RECURSIVE Difference_next(_)
Difference_next(d) ==
    LET r == Iter_next(d.iter)
    IN  IF ~r.ret.some
        THEN [ret |-> None, st |-> [d EXCEPT !.iter = r.st]]
        ELSE IF ~contains(d.other, r.ret.val)
        THEN [ret |-> r.ret, st |-> [d EXCEPT !.iter = r.st]]
        ELSE Difference_next([d EXCEPT !.iter = r.st])

Intersection_next_no_loop(d) ==
    LET r == Iter_next(d.iter)
    IN  IF r.ret.some /\ contains(d.other, r.ret.val)
        THEN [ret |-> r.ret, st |-> [d EXCEPT !.iter = r.st]]
        ELSE [ret |-> None, st |-> [d EXCEPT !.iter = r.st]]

RECURSIVE Intersection_next(_)
Intersection_next(d) ==
    LET r == Iter_next(d.iter)
    IN  IF ~r.ret.some
        THEN [ret |-> None, st |-> [d EXCEPT !.iter = r.st]]
        ELSE IF contains(d.other, r.ret.val)
        THEN [ret |-> r.ret, st |-> [d EXCEPT !.iter = r.st]]
        ELSE Intersection_next([d EXCEPT !.iter = r.st])

\* size_hint of Difference and of Intersection: (0, upper of the cursor).
Difference_size_hint_of_iter(d) == Iter_size_hint(d.iter)

Difference_size_hint(d) == <<0, Iter_size_hint(d.iter)[2]>>

Intersection_size_hint(d) == <<0, Iter_size_hint(d.iter)[2]>>

\* Chain<A, B>: a until it is exhausted, then b.  ra and rb are what a.next()
\* and b.next() give from the state c; next() calls a.next() only while the
\* flag is unset, and b.next() only once a.next() has returned None.
Chain(x, y) == [a |-> x, b |-> y, flag |-> FALSE]

Chain_next(c, ra, rb) ==
    IF c.flag
    THEN [ret |-> rb.ret, st |-> [c EXCEPT !.b = rb.st]]
    ELSE IF ra.ret.some
         THEN [ret |-> ra.ret, st |-> [c EXCEPT !.a = ra.st]]
         ELSE [ret |-> rb.ret,
               st |-> [c EXCEPT !.a = ra.st, !.flag = TRUE, !.b = rb.st]]

symmetric_difference_one_sided(h, other) ==
    [iter |-> Chain(difference(h, other), difference(h, other))]

symmetric_difference(h, other) ==
    [iter |-> Chain(difference(h, other), difference(other, h))]

union_self_difference(h, other) == [iter |-> Chain(iter(h), difference(h, other))]

union(h, other) == [iter |-> Chain(iter(h), difference(other, h))]

SymmetricDifference_next(x) ==
    LET r == Chain_next(x.iter, Difference_next(x.iter.a), Difference_next(x.iter.b))
    IN  [ret |-> r.ret, st |-> [iter |-> r.st]]

Union_next(x) ==
    LET r == Chain_next(x.iter, Iter_next(x.iter.a), Difference_next(x.iter.b))
    IN  [ret |-> r.ret, st |-> [iter |-> r.st]]

\* ----------------------------------------------------------- the state
AlgebraKinds == {"iter", "difference", "intersection", "symmetric_difference", "union"}

NoIter == [kind |-> "none", self |-> "a", other |-> "a", st |-> <<>>]

NoCall ==
    [op |-> "new", s |-> "a", o |-> "a", v |-> 0, xs |-> <<>>, p |-> 1,
     ret |-> FALSE, opt |-> None, pre |-> HashSet_new, new |-> HashSet_new,
     k |-> 0, rem |-> 0, cyc |-> 0]

\* No iterator is alive: nothing borrows either set.
Idle == it.kind = "none"

\* The states a set can be in: any keys without repetition, counted by size.
ReachableSets ==
    {[map |-> [keys |-> q, size |-> Len(q)]] :
        q \in {r \in SeqsUpTo(Values, NumValues) : NoDup(r)}}

Init ==
    /\ set = [s \in SetNames |-> HashSet_new]
    /\ it = NoIter
    /\ out = <<>>
    /\ last = NoCall

InitAlgebra ==
    /\ set \in [SetNames -> ReachableSets]
    /\ it = NoIter
    /\ out = <<>>
    /\ last = NoCall

\* ------------------------------------------------------------- mutations
Insert(s, v, p) ==
    /\ Idle
    /\ LET r == insert(set[s], v, p)
       IN  /\ set' = [set EXCEPT ![s] = r.set]
           /\ last' = [NoCall EXCEPT !.op = "insert", !.s = s, !.v = v, !.p = p,
                                     !.ret = r.ret, !.pre = set[s]]
    /\ UNCHANGED <<it, out>>

Remove(s, v) ==
    /\ Idle
    /\ LET r == remove(set[s], v)
       IN  /\ set' = [set EXCEPT ![s] = r.set]
           /\ last' = [NoCall EXCEPT !.op = "remove", !.s = s, !.v = v,
                                     !.ret = r.ret, !.pre = set[s]]
    /\ UNCHANGED <<it, out>>

Clear(s) ==
    /\ Idle
    /\ set' = [set EXCEPT ![s] = clear(set[s])]
    /\ last' = [NoCall EXCEPT !.op = "clear", !.s = s, !.pre = set[s]]
    /\ UNCHANGED <<it, out>>

\* extend after a completed drain of the same set counts one more round.
Extend(s, xs, p) ==
    /\ Idle
    /\ set' = [set EXCEPT ![s] = extend(set[s], xs, p)]
    /\ last' = IF last.op = "drain_drop" /\ last.s = s
               THEN [NoCall EXCEPT !.op = "extend", !.s = s, !.xs = xs, !.p = p,
                                   !.pre = set[s], !.k = last.k, !.rem = last.rem,
                                   !.cyc = Min(last.cyc + 1, MaxCycles)]
               ELSE [NoCall EXCEPT !.op = "extend", !.s = s, !.xs = xs, !.p = p,
                                   !.pre = set[s]]
    /\ UNCHANGED <<it, out>>

\* xs.collect(): a new set built from the sequence xs.  from_iter reads
\* neither set, so it is driven as the first call only.
FromIter(xs, p) ==
    /\ Idle
    /\ last = NoCall
    /\ last' = [NoCall EXCEPT !.op = "from_iter", !.xs = xs, !.p = p,
                              !.new = from_iter(xs, p)]
    /\ UNCHANGED <<set, it, out>>

\* ----------------------------------------------------------------- drain
DrainCall(s) ==
    /\ Idle
    /\ it' = [kind |-> "drain", self |-> s, other |-> s, st |-> drain(set[s])]
    /\ out' = <<>>
    /\ last' = [NoCall EXCEPT !.op = "drain", !.s = s, !.pre = set[s],
                              !.cyc = IF last.op = "extend" /\ last.s = s
                                      THEN last.cyc ELSE 0]
    /\ UNCHANGED set

DrainNext ==
    /\ it.kind = "drain"
    /\ LET r == Drain_next(set[it.self])
       IN  /\ set' = [set EXCEPT ![it.self] = r.set]
           /\ out' = IF r.ret.some THEN Append(out, r.ret.val) ELSE out
           /\ last' = [NoCall EXCEPT !.op = "drain_next", !.s = it.self,
                                     !.opt = r.ret, !.pre = last.pre,
                                     !.cyc = last.cyc]
    /\ UNCHANGED it

DrainDrop ==
    /\ it.kind = "drain"
    /\ set' = [set EXCEPT ![it.self] = Drain_drop(set[it.self])]
    /\ it' = NoIter
    /\ out' = <<>>
    /\ last' = [NoCall EXCEPT !.op = "drain_drop", !.s = it.self,
                              !.pre = last.pre, !.k = Len(out),
                              !.rem = Len(set[it.self].map.keys),
                              !.cyc = last.cyc]

\* ------------------------------------------------------------- iterators
NewIterator(kind, h, other) ==
    CASE kind = "iter" -> iter(h)
      [] kind = "difference" -> difference(h, other)
      [] kind = "intersection" -> intersection(h, other)
      [] kind = "symmetric_difference" -> symmetric_difference(h, other)
      [] kind = "union" -> union(h, other)

IteratorNext(kind, st) ==
    CASE kind = "iter" -> Iter_next(st)
      [] kind = "difference" -> Difference_next(st)
      [] kind = "intersection" -> Intersection_next(st)
      [] kind = "symmetric_difference" -> SymmetricDifference_next(st)
      [] kind = "union" -> Union_next(st)

\* The iterators that filter one cursor, and the upper bound of their hint.
FilterKinds == {"difference", "intersection"}

SizeHint(kind, st) ==
    CASE kind = "difference" -> Difference_size_hint(st)
      [] kind = "intersection" -> Intersection_size_hint(st)

UpperHint(kind, st) == IF kind \in FilterKinds THEN SizeHint(kind, st)[2].val ELSE 0

IterCall(kind, s, o) ==
    /\ Idle
    /\ kind = "iter" => o = s
    /\ it' = [kind |-> kind, self |-> s, other |-> o,
              st |-> NewIterator(kind, set[s], set[o])]
    /\ out' = <<>>
    /\ last' = [NoCall EXCEPT !.op = kind, !.s = s, !.o = o]
    /\ UNCHANGED set

\* next(); the call before it of size_hint(), where the iterator filters,
\* is kept in last.k.
IterNext ==
    /\ it.kind \in AlgebraKinds
    /\ LET r == IteratorNext(it.kind, it.st)
       IN  /\ it' = [it EXCEPT !.st = r.st]
           /\ out' = IF r.ret.some THEN Append(out, r.ret.val) ELSE out
           /\ last' = [NoCall EXCEPT !.op = "next", !.s = it.self, !.o = it.other,
                                     !.opt = r.ret,
                                     !.k = UpperHint(it.kind, it.st)]
    /\ UNCHANGED set

IterDrop ==
    /\ it.kind \in AlgebraKinds
    /\ it' = NoIter
    /\ out' = <<>>
    /\ last' = [NoCall EXCEPT !.op = "drop", !.s = it.self, !.o = it.other]
    /\ UNCHANGED set

\* --------------------------------------------------------------- queries
IsDisjoint(s, o) ==
    /\ Idle
    /\ last' = [NoCall EXCEPT !.op = "is_disjoint", !.s = s, !.o = o,
                              !.ret = is_disjoint(set[s], set[o])]
    /\ UNCHANGED <<set, it, out>>

IsSubset(s, o) ==
    /\ Idle
    /\ last' = [NoCall EXCEPT !.op = "is_subset", !.s = s, !.o = o,
                              !.ret = is_subset(set[s], set[o])]
    /\ UNCHANGED <<set, it, out>>

IsSuperset(s, o) ==
    /\ Idle
    /\ last' = [NoCall EXCEPT !.op = "is_superset", !.s = s, !.o = o,
                              !.ret = is_superset(set[s], set[o])]
    /\ UNCHANGED <<set, it, out>>

Eq(s, o) ==
    /\ Idle
    /\ last' = [NoCall EXCEPT !.op = "eq", !.s = s, !.o = o,
                              !.ret = eq(set[s], set[o])]
    /\ UNCHANGED <<set, it, out>>

\* ------------------------------------------------------------ collecting
\* set[s].iter().cloned().collect(): Iter pulled to None, into a new set.
RECURSIVE pulled_Iter(_)
pulled_Iter(i) ==
    LET r == Iter_next(i)
    IN  IF r.ret.some THEN <<r.ret.val>> \o pulled_Iter(r.st) ELSE <<>>

elements(h) == pulled_Iter(iter(h))

CollectIter(s, p) ==
    /\ Idle
    /\ last' = [NoCall EXCEPT !.op = "collect_iter", !.s = s, !.p = p,
                              !.xs = elements(set[s]),
                              !.new = from_iter(elements(set[s]), p)]
    /\ UNCHANGED <<set, it, out>>

\* ------------------------------------------------------ specifications
Next ==
    \/ \E v \in Values, p \in Slots : Insert("a", v, p)
    \/ \E v \in Values : Remove("a", v)
    \/ Clear("a")
    \/ \E xs \in SeqsUpTo(Values, MaxXs), p \in EndSlots : Extend("a", xs, p)
    \/ \E xs \in SeqsUpTo(Values, MaxXs), p \in EndSlots : FromIter(xs, p)
    \/ DrainCall("a")
    \/ DrainNext
    \/ DrainDrop

Spec == Init /\ [][Next]_vars

NextAlgebra ==
    \/ \E kind \in AlgebraKinds, s \in SetNames, o \in SetNames : IterCall(kind, s, o)
    \/ IterNext
    \/ IterDrop
    \/ \E s \in SetNames, o \in SetNames : IsDisjoint(s, o)
    \/ \E s \in SetNames, o \in SetNames : IsSubset(s, o)
    \/ \E s \in SetNames, o \in SetNames : IsSuperset(s, o)
    \/ \E s \in SetNames, o \in SetNames : Eq(s, o)
    \/ \E s \in SetNames, p \in EndSlots : CollectIter(s, p)

SpecAlgebra == InitAlgebra /\ [][NextAlgebra]_vars

\* ================================================================ claims
\* What the formulas read off a state.
A == set[it.self]
B == set[it.other]

\* The sequence a SymmetricDifference yields when pulled to exhaustion.
RECURSIVE pulled_SymmetricDifference(_)
pulled_SymmetricDifference(x) ==
    LET r == SymmetricDifference_next(x)
    IN  IF r.ret.some THEN <<r.ret.val>> \o pulled_SymmetricDifference(r.st) ELSE <<>>

Members(h) == {e \in Values : contains(h, e)}

\* The live iterator of the given kind has just returned None.
Exhausted(kind) == it.kind = kind /\ last.op = "next" /\ ~last.opt.some

\* C1: whenever no drain is in flight, the set holds no element twice, len()
\* is the number of distinct elements contains() accepts, and is_empty() is
\* true exactly when len() is 0.
C1_NoElementTwice ==
    Idle =>
        \A s \in SetNames :
            /\ NoDup(elements(set[s]))
            /\ len(set[s]) = Cardinality(Members(set[s]))
            /\ len(set[s]) = Len(elements(set[s]))
            /\ is_empty(set[s]) <=> (len(set[s]) = 0)

C1_Witness ==
    /\ last.op = "extend"
    /\ last.cyc >= 1
    /\ Len(last.xs) = 2
    /\ last.xs[1] = last.xs[2]
    /\ len(set["a"]) = 1

\* C2: insert(v) returns true iff v was absent; afterwards v is contained; a
\* present v leaves len() and every other membership unchanged, an absent v
\* makes len() grow by exactly 1.
C2_Insert ==
    last.op = "insert" =>
        LET pre == last.pre
            post == set[last.s]
        IN  /\ last.ret <=> ~contains(pre, last.v)
            /\ contains(post, last.v)
            /\ contains(pre, last.v) =>
                   /\ ~last.ret
                   /\ len(post) = len(pre)
                   /\ \A e \in Values \ {last.v} : contains(post, e) <=> contains(pre, e)
            /\ ~contains(pre, last.v) => len(post) = len(pre) + 1

C2_Witness ==
    /\ last.op = "insert"
    /\ last.ret
    /\ len(last.pre) = 2
    /\ len(set[last.s]) = 3

\* C3: remove(v) returns true iff v was present; afterwards v is not contained;
\* an absent v leaves len() and all memberships unchanged, a present v makes
\* len() shrink by exactly 1 and changes no other membership.
C3_Remove ==
    last.op = "remove" =>
        LET pre == last.pre
            post == set[last.s]
        IN  /\ last.ret <=> contains(pre, last.v)
            /\ ~contains(post, last.v)
            /\ \A e \in Values \ {last.v} : contains(post, e) <=> contains(pre, e)
            /\ ~contains(pre, last.v) => (~last.ret /\ len(post) = len(pre))
            /\ contains(pre, last.v) => len(post) = len(pre) - 1

C3_Witness ==
    /\ last.op = "remove"
    /\ last.ret
    /\ len(last.pre) = 3
    /\ len(set[last.s]) = 2

\* C4: once a Drain has returned None, or has been dropped after any number
\* of pulls, the set is empty (len() is 0 and iter() yields nothing); an
\* extend with n distinct elements that follows gives len() = n, in every
\* round of drain-then-extend.
C4_Drain ==
    /\ (last.op = "drain_next" /\ ~last.opt.some) =>
           (len(set[last.s]) = 0 /\ elements(set[last.s]) = <<>>)
    /\ last.op = "drain_drop" =>
           (len(set[last.s]) = 0 /\ elements(set[last.s]) = <<>>)
    /\ (last.op = "extend" /\ last.cyc >= 1 /\ NoDup(last.xs)) =>
           len(set[last.s]) = Len(last.xs)

C4_Witness ==
    /\ last.op = "extend"
    /\ last.cyc >= 2
    /\ last.k >= 1
    /\ last.rem >= 1
    /\ NoDup(last.xs)
    /\ len(set[last.s]) = 2

\* C5: A.union(B) yields the elements of A in A's order, then the elements of
\* B that are not in A in B's order: each element of A or B exactly once,
\* nothing else, |A| + |B| - |A intersect B| items in all.
C5_Union ==
    Exhausted("union") =>
        /\ out = elements(A) \o SelectSeq(elements(B), LAMBDA e : ~contains(A, e))
        /\ \A e \in Values :
               Count(out, e) = IF contains(A, e) \/ contains(B, e) THEN 1 ELSE 0
        /\ Len(out) = len(A) + len(B) - Cardinality(Members(A) \cap Members(B))

C5_Witness ==
    /\ Exhausted("union")
    /\ Members(A) \cap Members(B) # {}
    /\ Members(A) \ Members(B) # {}
    /\ Members(B) \ Members(A) # {}

\* C6: A.symmetric_difference(B) and B.symmetric_difference(A) yield the same
\* multiset: each element of exactly one of A, B once, and no other element.
C6_SymmetricDifference ==
    Exhausted("symmetric_difference") =>
        /\ BagOf(out) = BagOf(pulled_SymmetricDifference(symmetric_difference(B, A)))
        /\ \A e \in Values :
               /\ Count(out, e) = IF contains(A, e) # contains(B, e) THEN 1 ELSE 0
               /\ Count(pulled_SymmetricDifference(symmetric_difference(B, A)), e)
                      = IF contains(A, e) # contains(B, e) THEN 1 ELSE 0

C6_Witness ==
    /\ Exhausted("symmetric_difference")
    /\ Members(A) \cap Members(B) # {}
    /\ Members(A) \ Members(B) # {}
    /\ Members(B) \ Members(A) # {}
    /\ out # pulled_SymmetricDifference(symmetric_difference(B, A))

\* C7: A.difference(B) yields exactly the elements of A that are not in B,
\* each once and in the order A.iter() yields them: nothing when A is a
\* subset of B, all of A when A and B are disjoint.
C7_Difference ==
    Exhausted("difference") =>
        /\ out = SelectSeq(elements(A), LAMBDA e : ~contains(B, e))
        /\ NoDup(out)
        /\ Members(A) \subseteq Members(B) => out = <<>>
        /\ Members(A) \cap Members(B) = {} => out = elements(A)

C7_Witness ==
    /\ Exhausted("difference")
    /\ Len(out) = 2
    /\ out[1] > out[2]
    /\ Members(A) \cap Members(B) # {}

\* C8: A.intersection(B) yields exactly the elements of A that are in B, each
\* once and in the order A.iter() yields them.
C8_Intersection ==
    Exhausted("intersection") =>
        /\ out = SelectSeq(elements(A), LAMBDA e : contains(B, e))
        /\ NoDup(out)

C8_Witness ==
    /\ Exhausted("intersection")
    /\ Len(out) = 2
    /\ out[1] > out[2]
    /\ Members(A) \ Members(B) # {}
    /\ elements(B) # elements(A)

\* C9: A.is_subset(B) is true iff every element of A is in B, so the empty set
\* is a subset of every set; A.is_superset(B) equals B.is_subset(A).
C9_SubsetSuperset ==
    /\ last.op = "is_subset" =>
           /\ last.ret <=> (\A e \in Values : contains(set[last.s], e) => contains(set[last.o], e))
           /\ is_empty(set[last.s]) => last.ret
    /\ last.op = "is_superset" =>
           /\ last.ret = is_subset(set[last.o], set[last.s])
           /\ last.ret <=> (\A e \in Values : contains(set[last.o], e) => contains(set[last.s], e))

C9_Witness ==
    /\ last.op = "is_superset"
    /\ last.ret
    /\ ~is_empty(set[last.o])
    /\ len(set[last.s]) > len(set[last.o])
    /\ ~is_superset(set[last.o], set[last.s])

\* C10: A.is_disjoint(B) equals B.is_disjoint(A), and both are true iff no
\* element is contained in both sets, as when either set is empty.
C10_Disjoint ==
    last.op = "is_disjoint" =>
        /\ last.ret = is_disjoint(set[last.o], set[last.s])
        /\ last.ret <=> ~(\E e \in Values : contains(set[last.s], e) /\ contains(set[last.o], e))
        /\ (is_empty(set[last.s]) \/ is_empty(set[last.o])) => last.ret

C10_Witness ==
    /\ last.op = "is_disjoint"
    /\ ~last.ret
    /\ len(set[last.s]) = 3
    /\ len(set[last.o]) = 1

\* The sets that hold the elements of h in another bucket order.
Orders(h) ==
    {[map |-> [keys |-> [i \in 1 .. Len(h.map.keys) |-> h.map.keys[f[i]]],
               size |-> h.map.size]] :
        f \in Permutations(1 .. Len(h.map.keys))}

\* C11: A == B is true iff A.len() == B.len() and every element of A is
\* contained in B, whatever the bucket order of either set.
C11_Eq ==
    last.op = "eq" =>
        LET X == set[last.s]
            Y == set[last.o]
        IN  /\ last.ret <=>
                   /\ len(X) = len(Y)
                   /\ \A e \in Values : contains(X, e) => contains(Y, e)
            /\ \A x \in Orders(X) : eq(x, Y) = last.ret
            /\ \A y \in Orders(Y) : eq(X, y) = last.ret

C11_Witness ==
    /\ last.op = "eq"
    /\ last.ret
    /\ len(set[last.s]) = 3
    /\ elements(set[last.s]) # elements(set[last.o])

\* C12: the elements A.iter() yields, collected into a new set by from_iter,
\* give a set structurally equal to A with the same len().
C12_RoundTrip ==
    last.op = "collect_iter" =>
        /\ eq(last.new, set[last.s])
        /\ eq(set[last.s], last.new)
        /\ len(last.new) = len(set[last.s])
        /\ Members(last.new) = Members(set[last.s])

C12_Witness ==
    /\ last.op = "collect_iter"
    /\ len(set[last.s]) = 3
    /\ elements(last.new) # elements(set[last.s])

\* insert(xs[1]), ..., insert(xs[n]) called one after the other on h.
RECURSIVE inserted_each(_, _, _, _)
inserted_each(h, xs, p, n) ==
    IF n = 0 THEN h ELSE insert(inserted_each(h, xs, p, n - 1), xs[n], p).set

\* C13: S.extend(xs) leaves S as insert(x) for each x of xs in order does, and
\* from_iter(xs) is the empty set extended with xs: the result holds the prior
\* elements and the distinct elements of xs, each counted once by len().
C13_Extend ==
    /\ last.op = "extend" =>
           /\ set[last.s] = inserted_each(last.pre, last.xs, last.p, Len(last.xs))
           /\ Members(set[last.s]) = Members(last.pre) \cup Range(last.xs)
           /\ len(set[last.s]) = Cardinality(Members(last.pre) \cup Range(last.xs))
    /\ last.op = "from_iter" =>
           /\ last.new = extend(HashSet_new, last.xs, last.p)
           /\ last.new = inserted_each(HashSet_new, last.xs, last.p, Len(last.xs))
           /\ Members(last.new) = Range(last.xs)
           /\ len(last.new) = Cardinality(Range(last.xs))

C13_Witness ==
    /\ last.op = "extend"
    /\ Len(last.xs) = 2
    /\ last.xs[1] = last.xs[2]
    /\ ~contains(last.pre, last.xs[1])
    /\ len(last.pre) >= 1
    /\ last.cyc = 0

\* C14: a fresh iter() pulled to None yields every element of the set exactly
\* once and nothing else, len() items in all, whatever the bucket order.
C14_Iterate ==
    Exhausted("iter") =>
        /\ \A e \in Values : Count(out, e) = IF contains(A, e) THEN 1 ELSE 0
        /\ Len(out) = len(A)

C14_Witness ==
    /\ Exhausted("iter")
    /\ Len(out) = 3
    /\ out[1] > out[2]
    /\ out[3] > out[2]

\* The keys each cursor of an iterator has not examined yet.
Cursors(kind, st) ==
    CASE kind = "iter" -> <<st.iter.rest>>
      [] kind \in FilterKinds -> <<st.iter.iter.rest>>
      [] kind = "symmetric_difference" ->
             <<st.iter.a.iter.iter.rest, st.iter.b.iter.iter.rest>>
      [] kind = "union" -> <<st.iter.a.iter.rest, st.iter.b.iter.iter.rest>>

RECURSIVE SumLen(_)
SumLen(qs) == IF qs = <<>> THEN 0 ELSE Len(Head(qs)) + SumLen(Tail(qs))

Remaining(kind, st) == SumLen(Cursors(kind, st))

IsSuffix(q, r) == Len(q) <= Len(r) /\ q = SubSeq(r, Len(r) - Len(q) + 1, Len(r))

\* C15: for difference, intersection, symmetric_difference and union over A
\* and B, a next() that yields has moved a cursor forward, a next() returns
\* None only with every cursor at its end and does so from then on, no cursor
\* ever moves back, and at most |A| + |B| elements are yielded before None.
C15_Terminates ==
    (it.kind \in AlgebraKinds \ {"iter"}) =>
        LET r == IteratorNext(it.kind, it.st)
            now == Cursors(it.kind, it.st)
            then == Cursors(it.kind, r.st)
        IN  /\ Len(out) + SumLen(now) <= len(A) + len(B)
            /\ r.ret.some => SumLen(then) < SumLen(now)
            /\ ~r.ret.some => SumLen(then) = 0
            /\ SumLen(now) = 0 => ~r.ret.some
            /\ \A i \in 1 .. Len(now) : IsSuffix(then[i], now[i])
            /\ Exhausted(it.kind) => SumLen(now) = 0

C15_Witness ==
    /\ Exhausted("difference")
    /\ out = <<>>
    /\ len(A) = 3
    /\ last.k = 3

\* C16: == is symmetric, reflexive and transitive, and A == B holds exactly when
\* A.is_subset(B) and B.is_subset(A), that is when both have the same elements.
C16_EqEquivalence ==
    last.op = "eq" =>
        LET X == set[last.s]
            Y == set[last.o]
        IN  /\ last.ret = eq(Y, X)
            /\ eq(X, X)
            /\ eq(Y, Y)
            /\ last.ret <=> (is_subset(X, Y) /\ is_subset(Y, X))
            /\ last.ret <=> (Members(X) = Members(Y))
            /\ \A Z \in ReachableSets : (last.ret /\ eq(Y, Z)) => eq(X, Z)

C16_Witness ==
    /\ last.op = "eq"
    /\ ~last.ret
    /\ len(set[last.s]) = 2
    /\ len(set[last.o]) = 3
    /\ is_subset(set[last.s], set[last.o])

\* The sequence an iterator yields from the state st on, pulled to None.
RECURSIVE pulled(_, _)
pulled(kind, st) ==
    LET r == IteratorNext(kind, st)
    IN  IF r.ret.some THEN <<r.ret.val>> \o pulled(kind, r.st) ELSE <<>>

\* The place of e in the sequence q.
IndexOf(q, e) == CHOOSE i \in 1 .. Len(q) : q[i] = e

\* The elements of self a Difference or Intersection has not examined: all of
\* them before the first next(), those behind the element just yielded, none
\* after a None.
Unexamined ==
    IF last.op = "next"
    THEN IF last.opt.some
         THEN len(A) - IndexOf(elements(A), last.opt.val)
         ELSE 0
    ELSE len(A)

\* C17: size_hint() of a Difference or Intersection gives 0 and the number of
\* elements of self not yet examined; what the iterator still yields lies
\* between the two; the upper bound does not grow from one next() to the next.
C17_SizeHint ==
    (it.kind \in FilterKinds) =>
        LET h == SizeHint(it.kind, it.st)
            still == Len(pulled(it.kind, it.st))
        IN  /\ h[1] = 0
            /\ h[2] = Some(Unexamined)
            /\ h[1] <= still
            /\ still <= h[2].val
            /\ last.op = "next" => h[2].val <= last.k

C17_Witness ==
    /\ it.kind = "difference"
    /\ last.op = "next"
    /\ last.opt.some
    /\ last.k = 3
    /\ SizeHint(it.kind, it.st) = <<0, Some(1)>>
    /\ pulled(it.kind, it.st) = <<>>

====
